---- MODULE Spec2Model ----
(***************************************************************************)
(* Model of the game-ai-agent backend: the LLM agents of domain/agent.py   *)
(* (OpenAIAgent, OllamaAgent, AgentFactory), the connection registry of    *)
(* core/connection.py, the websocket endpoint of api/routes/router.py and  *)
(* the message dispatcher WebsocketService.handle_message.                 *)
(*                                                                         *)
(* Three specifications share the definitions:                             *)
(*   SpecAgent  one agent of either class driven by initialize_theme and   *)
(*              get_response calls;                                        *)
(*   Spec       the server: endpoint coroutines, one WebsocketService per  *)
(*              connection, the shared Connection registry, broadcasts     *)
(*              suspended at every send;                                   *)
(*   SpecConnection  the Connection registry called directly: connect and  *)
(*              disconnect in any order.                                   *)
(***************************************************************************)
EXTENDS Integers, Sequences, FiniteSets, TLC

VARIABLES
  \* SpecAgent: the agent under test, every turn ever appended to its history,
  \* the last request handed to the provider, the get_response calls made
  agent, turns, request, ncalls,
  \* Spec: Connection.active_connections, each endpoint coroutine's position,
  \* each connection's WebsocketService.agents, its broadcast loop, what the
  \* environment may still send, and the outputs of the step just taken: what
  \* handle_message did (handled) and the broadcast call that ended (finished)
  \* (created counts each service's AgentFactory.create_agent calls)
  active_connections, pc, agents, created, frame, handled, quota, finished,
  \* SpecConnection: the last call made on the registry and how it ended
  registry_call

agent_vars == <<agent, turns, request, ncalls>>
server_vars ==
  <<active_connections, pc, agents, created, frame, handled, quota, finished,
    registry_call>>
vars == <<agent, turns, request, ncalls,
          active_connections, pc, agents, created, frame, handled, quota,
          finished, registry_call>>

\* ------------------------------------------------------------------ bounds
\* get_response calls made on the agent under SpecAgent
MaxCalls == 6

\* ------------------------------------------------------- program constants
\* deque(maxlen=10) / "if len(self.histories) > 10"
HistoryMax == 10

ROLE_SYSTEM == "system"
ROLE_USER == "user"
ROLE_ASSISTANT == "assistant"
SYSTEM_PREFIX == "[system]\n"
USER_PREFIX == "[user]\n"
ASSISTANT_PREFIX == "[assistant]\n"
SEPARATOR == "\n\n"

\* utils/enum.py
GameType == {"two_truth_a_lie"}
LLMType == {"openai", "olamma"}
OPEN_AI == "openai"
OLLAMA == "olamma"

\* the prompt table of domain/agent.py: one template per implemented game
system_prompts == [g \in {"two_truth_a_lie"} |-> "As the host of Two Truths and a Lie"]

\* ------------------------------------------------------------ input sets
\* texts a user sends as a chat prompt
Prompts == {"p1", "p2"}
\* texts the completion provider returns to a chat request
Replies == {"r1"}
\* texts the completion provider returns to the theme request
Themes == {"t1", "t2"}
\* what one provider call can do: return a text or raise
ProviderFails == [ok |-> FALSE, text |-> ""]
ReplyOutcomes == [ok : {TRUE}, text : Replies] \cup {ProviderFails}
ThemeOutcomes == [ok : {TRUE}, text : Themes] \cup {ProviderFails}

\* ------------------------------------------------------------ agents
NoAgent == [cls |-> "None"]

\* OpenAIAgent.__init__
NewOpenAIAgent(system_prompt) ==
  [cls |-> "OpenAIAgent", system_prompt |-> system_prompt,
   directional_prompt |-> "", theme |-> "", histories |-> <<>>]

\* OllamaAgent.__init__
NewOllamaAgent(system_prompt) ==
  [cls |-> "OllamaAgent", system_prompt |-> system_prompt,
   directional_prompt |-> "", theme |-> "", histories |-> <<>>]

\* s[-n:] of a Python list
LastN(s, n) == IF Len(s) <= n THEN s ELSE SubSeq(s, Len(s) - n + 1, Len(s))

\* mutant of DequeAppend: a deque built without maxlen
DequeAppendUnbounded(h, e) == Append(h, e)

\* deque(maxlen=10).append: a full deque drops its leftmost entry
DequeAppend(h, e) ==
  IF Len(h) >= HistoryMax THEN Append(Tail(h), e) ELSE Append(h, e)

\* OpenAIAgent.get_response, lines 86-89: append the user turn, then trim
OpenAIAppendUser(h, prompt) ==
  LET h1 == Append(h, [role |-> ROLE_USER, content |-> prompt])
  IN IF Len(h1) > HistoryMax THEN LastN(h1, HistoryMax) ELSE h1

\* OpenAIAgent.get_response, line 104: the assistant turn is appended untrimmed
OpenAIAppendAssistant(h, text) ==
  Append(h, [role |-> ROLE_ASSISTANT, content |-> text])

\* OpenAIAgent.get_response, lines 91-94: each assignment replaces the list
OpenAIMessages(a) ==
  LET m1 == << [role |-> ROLE_SYSTEM, content |-> a.system_prompt] >>
      m2 == << [role |-> ROLE_USER, content |-> a.directional_prompt] >>
      m3 == << [role |-> ROLE_ASSISTANT, content |-> a.theme] >>
  IN m3 \o a.histories

\* the history part of OllamaAgent's prompt, lines 169-173
RECURSIVE OllamaHistoryText(_)
OllamaHistoryText(h) ==
  IF h = <<>> THEN <<>>
  ELSE LET role == Head(h)[1]
           message == Head(h)[2]
           seg == IF role = ROLE_USER THEN <<USER_PREFIX, message, SEPARATOR>>
                  ELSE IF role = ROLE_ASSISTANT
                       THEN <<ASSISTANT_PREFIX, message, SEPARATOR>>
                       ELSE <<>>
       IN seg \o OllamaHistoryText(Tail(h))

\* OllamaAgent.get_response, lines 166-173: the prompt string, as the sequence
\* of the strings concatenated
OllamaFullPrompt(a) ==
  <<SYSTEM_PREFIX, a.system_prompt, SEPARATOR>>
  \o <<USER_PREFIX, a.directional_prompt, SEPARATOR>>
  \o <<ASSISTANT_PREFIX, a.theme, SEPARATOR>>
  \o OllamaHistoryText(a.histories)

\* OpenAIAgent.initialize_theme; out is what the provider call does
OpenAIInitializeTheme(a, directional_prompt, out) ==
  LET a1 == [a EXCEPT !.directional_prompt = directional_prompt]
      req == [kind |-> "messages",
              body |-> << [role |-> ROLE_SYSTEM, content |-> a.system_prompt],
                          [role |-> ROLE_USER, content |-> directional_prompt] >>]
  IN IF out.ok
     THEN [agent |-> [a1 EXCEPT !.theme = out.text], request |-> req,
           raised |-> "None", ret |-> out.text, appended |-> <<>>, sent |-> <<>>]
     ELSE [agent |-> a1, request |-> req,
           raised |-> "Exception", ret |-> "", appended |-> <<>>, sent |-> <<>>]

\* OllamaAgent.initialize_theme
OllamaInitializeTheme(a, directional_prompt, out) ==
  LET a1 == [a EXCEPT !.directional_prompt = directional_prompt]
      req == [kind |-> "text",
              body |-> <<SYSTEM_PREFIX, a1.system_prompt,
                         USER_PREFIX, a1.directional_prompt>>]
  IN IF out.ok
     THEN [agent |-> [a1 EXCEPT !.theme = out.text], request |-> req,
           raised |-> "None", ret |-> out.text, appended |-> <<>>, sent |-> <<>>]
     ELSE [agent |-> a1, request |-> req,
           raised |-> "Exception", ret |-> "", appended |-> <<>>, sent |-> <<>>]

\* OpenAIAgent.get_response
OpenAIGetResponse(a, prompt, out) ==
  LET h1 == OpenAIAppendUser(a.histories, prompt)
      a1 == [a EXCEPT !.histories = h1]
      req == [kind |-> "messages", body |-> OpenAIMessages(a1)]
      user == [role |-> ROLE_USER, content |-> prompt]
  IN IF out.ok
     THEN [agent |-> [a1 EXCEPT !.histories = OpenAIAppendAssistant(h1, out.text)],
           request |-> req, raised |-> "None", ret |-> out.text, sent |-> h1,
           appended |-> <<user, [role |-> ROLE_ASSISTANT, content |-> out.text]>>]
     ELSE [agent |-> a1, request |-> req, raised |-> "RuntimeError", ret |-> "",
           sent |-> h1, appended |-> <<user>>]

\* mutant of OllamaGetResponse: a failed provider call takes the user turn
\* back out of the history
OllamaGetResponseRollback(a, prompt, out) ==
  LET h1 == DequeAppend(a.histories, <<ROLE_USER, prompt>>)
      a1 == [a EXCEPT !.histories = h1]
      req == [kind |-> "text", body |-> OllamaFullPrompt(a1) \o <<ASSISTANT_PREFIX>>]
  IN IF out.ok
     THEN [agent |-> [a1 EXCEPT !.histories =
                                  DequeAppend(h1, <<ROLE_ASSISTANT, out.text>>)],
           request |-> req, raised |-> "None", ret |-> out.text, sent |-> h1,
           appended |-> << <<ROLE_USER, prompt>>, <<ROLE_ASSISTANT, out.text>> >>]
     ELSE [agent |-> a, request |-> req, raised |-> "Exception", ret |-> "",
           sent |-> h1, appended |-> <<>>]

\* OllamaAgent.get_response
OllamaGetResponse(a, prompt, out) ==
  LET h1 == DequeAppend(a.histories, <<ROLE_USER, prompt>>)
      a1 == [a EXCEPT !.histories = h1]
      req == [kind |-> "text", body |-> OllamaFullPrompt(a1) \o <<ASSISTANT_PREFIX>>]
  IN IF out.ok
     THEN [agent |-> [a1 EXCEPT !.histories =
                                  DequeAppend(h1, <<ROLE_ASSISTANT, out.text>>)],
           request |-> req, raised |-> "None", ret |-> out.text, sent |-> h1,
           appended |-> << <<ROLE_USER, prompt>>, <<ROLE_ASSISTANT, out.text>> >>]
     ELSE [agent |-> a1, request |-> req, raised |-> "Exception", ret |-> "",
           sent |-> h1, appended |-> << <<ROLE_USER, prompt>> >>]

\* LLMAgent.get_response, dispatched on the agent's class
get_response(a, prompt, out) ==
  IF a.cls = "OpenAIAgent" THEN OpenAIGetResponse(a, prompt, out)
  ELSE OllamaGetResponse(a, prompt, out)

\* LLMAgent.initialize_theme, dispatched on the agent's class
initialize_theme(a, directional_prompt, out) ==
  IF a.cls = "OpenAIAgent" THEN OpenAIInitializeTheme(a, directional_prompt, out)
  ELSE OllamaInitializeTheme(a, directional_prompt, out)

\* AgentFactory.create_agent: the prompt lookup, then the match on llm_type
create_agent(game_type, llm_type) ==
  IF game_type \notin DOMAIN system_prompts
  THEN [ok |-> FALSE, exc |-> "KeyError", agent |-> NoAgent]
  ELSE IF llm_type = OPEN_AI
       THEN [ok |-> TRUE, exc |-> "None",
             agent |-> NewOpenAIAgent(system_prompts[game_type])]
  ELSE IF llm_type = OLLAMA
       THEN [ok |-> TRUE, exc |-> "None",
             agent |-> NewOllamaAgent(system_prompts[game_type])]
  ELSE [ok |-> FALSE, exc |-> "NotImplementedError", agent |-> NoAgent]

\* =================================================================== SpecAgent
NoRequest == [kind |-> "None", body |-> <<>>]

\* inputs of create_agent: the implemented game and provider names and one
\* unknown name each
GameTypeInputs == GameType \cup {"unknown_game"}
LLMTypeInputs == LLMType \cup {"unknown_llm"}
Directives == {"Let's start the game!"}

\* SpecAgent's record of a provider call: the method that made it, the
\* request, and the history the agent held when it called
NoCall == [op |-> "None", kind |-> "None", body |-> <<>>, history |-> <<>>]

AgentIdle ==
  /\ agent = NoAgent
  /\ turns = <<>>
  /\ request = NoCall
  /\ ncalls = 0

\* AgentFactory.create_agent called by a client of the factory
CreateAgent(game_type, llm_type) ==
  /\ agent.cls = "None"
  /\ LET r == create_agent(game_type, llm_type)
     IN agent' = r.agent
  /\ UNCHANGED <<turns, request, ncalls>>
  /\ UNCHANGED server_vars

\* agent.initialize_theme(directional_prompt)
InitializeTheme(directional_prompt, out) ==
  /\ agent.cls # "None"
  /\ LET r == initialize_theme(agent, directional_prompt, out)
     IN /\ agent' = r.agent
        /\ request' = [op |-> "initialize_theme", kind |-> r.request.kind,
                       body |-> r.request.body, history |-> r.sent]
  /\ UNCHANGED <<turns, ncalls>>
  /\ UNCHANGED server_vars

\* agent.get_response(prompt)
GetResponse(prompt, out) ==
  /\ agent.cls # "None"
  /\ ncalls < MaxCalls
  /\ LET r == get_response(agent, prompt, out)
     IN /\ agent' = r.agent
        /\ request' = [op |-> "get_response", kind |-> r.request.kind,
                       body |-> r.request.body, history |-> r.sent]
        /\ turns' = turns \o r.appended
  /\ ncalls' = ncalls + 1
  /\ UNCHANGED server_vars

AgentNext ==
  \/ \E g \in GameTypeInputs, l \in LLMTypeInputs : CreateAgent(g, l)
  \/ \E d \in Directives, out \in ThemeOutcomes : InitializeTheme(d, out)
  \/ \E p \in Prompts, out \in ReplyOutcomes : GetResponse(p, out)

\* ====================================================================== Spec
\* websocket_service.py: the one room every connection plays in
room_id == "YRHJE7tCpDtKzMnJNw3Fk48KVia4kzKU"
MINA_DEPLOY_ALIAS == "zkbot"

\* utils/enum.py
MessageType == {"initialization", "chat", "answer", "result"}

\* the websockets that may reach the endpoint
Conns == {"ws1", "ws2"}

\* ------------------------------------------------------- inbound texts
\* a text frame: JSON or not; obj is the decoded JSON object
Text(o) == [json |-> TRUE, obj |-> o]
NotJson == [json |-> FALSE, obj |-> [message_type |-> "None"]]
InitText ==
  Text([message_type |-> "initialization", game_type |-> "two_truth_a_lie",
        sender |-> "alice"])
ChatText == Text([message_type |-> "chat", message |-> "p1", sender |-> "alice"])
AnswerText == Text([message_type |-> "answer", message |-> "2", sender |-> "alice"])
ResultText ==
  Text([message_type |-> "result", result |-> "success", sender |-> "alice"])
InvalidTexts ==
  { NotJson,
    Text([sender |-> "alice"]),
    Text([message_type |-> "bogus", message |-> "p1", sender |-> "alice"]),
    Text([message_type |-> "initialization", game_type |-> "chess",
          sender |-> "alice"]),
    Text([message_type |-> "initialization", sender |-> "alice"]),
    Text([message_type |-> "chat", sender |-> "alice"]),
    Text([message_type |-> "answer", message |-> "2"]) }
InboundTexts == {InitText, ChatText, AnswerText, ResultText} \cup InvalidTexts

Has(text, f) == f \in DOMAIN text.obj

\* schema/message.py: BaseMessage.model_validate_json
BaseMessageValid(text) ==
  /\ text.json
  /\ Has(text, "message_type")
  /\ text.obj.message_type \in MessageType

\* mutant of InitializeMessageValid: game_type declared as a plain string, so
\* a game outside GameType passes validation
InitializeMessageValidAnyGame(text) ==
  /\ BaseMessageValid(text)
  /\ Has(text, "game_type")
  /\ Has(text, "sender")

\* InitializeMessage.model_validate_json
InitializeMessageValid(text) ==
  /\ BaseMessageValid(text)
  /\ Has(text, "game_type") /\ text.obj.game_type \in GameType
  /\ Has(text, "sender")

\* ChatMessage.model_validate_json
ChatMessageValid(text) ==
  /\ BaseMessageValid(text)
  /\ Has(text, "message")
  /\ Has(text, "sender")

\* AnswerMessage.model_validate_json
AnswerMessageValid(text) ==
  /\ BaseMessageValid(text)
  /\ Has(text, "message")
  /\ Has(text, "sender")

\* ------------------------------------------------------ outbound envelopes
NoEnvelope == <<>>

\* ResponseChatMessage(...).model_dump_json(): the fields in declaration order
ResponseChatMessage(message_type, message, sender) ==
  << <<"message_type", message_type>>, <<"message", message>>,
     <<"sender", sender>> >>

\* ResultMessage(...).model_dump_json()
ResultMessage(message_type, result, sender) ==
  << <<"message_type", message_type>>, <<"result", result>>,
     <<"sender", sender>> >>

\* ------------------------------------------------------------- verifier
\* utils/subprocess.execute: the completed process, or None after a timeout
\* or a non-zero exit (both are logged and swallowed)
VerifierOutcomes ==
  [completed : {TRUE}, stdout : {<<>>, <<"true">>, <<"false">>,
                                 <<"true", "false">>, <<"deploying", "true", "">>}]
  \cup {[completed |-> FALSE, stdout |-> <<>>]}

\* execute returned None: subprocess.run timed out or the exit code was not 0
VerifierFails == [completed |-> FALSE, stdout |-> <<>>]

\* the verifier prints its verdict and exits, or fails
PlainVerifierOutcomes ==
  {[completed |-> TRUE, stdout |-> <<"true">>],
   [completed |-> FALSE, stdout |-> <<>>]}

\* output.stdout.strip().splitlines(), stdout given line by line: the blank
\* lines at either end go
RECURSIVE StripLeft(_)
StripLeft(ls) ==
  IF ls # <<>> /\ Head(ls) = "" THEN StripLeft(Tail(ls)) ELSE ls

RECURSIVE StripRight(_)
StripRight(ls) ==
  IF ls # <<>> /\ ls[Len(ls)] = ""
  THEN StripRight(SubSeq(ls, 1, Len(ls) - 1)) ELSE ls

StripLines(ls) == StripRight(StripLeft(ls))

\* mutant of VerifierResult: the first line of the output decides
VerifierResultFirstLine(stdout) ==
  LET lines == StripLines(stdout)
      result == IF lines # <<>> THEN lines[1] ELSE "None"
  IN IF result = "true" THEN "success" ELSE "failed"

\* lines 127-133: the last line of the stripped output decides
VerifierResult(stdout) ==
  LET lines == StripLines(stdout)
      result == IF lines # <<>> THEN lines[Len(lines)] ELSE "None"
  IN IF result = "true" THEN "success" ELSE "failed"

\* ------------------------------------------------------- handle_message
\* the exception classes the except clauses of handle_message catch
\* (ValidationError, NotImplementedError, Exception): every Exception subclass.
\* SendError stands for what send_text raises on a dead socket
\* (WebSocketDisconnect or RuntimeError)
CaughtExceptions ==
  {"ValidationError", "NotImplementedError", "KeyError", "RuntimeError",
   "AttributeError", "Exception", "WebSocketDisconnect", "SendError"}

\* mutant of Caught: only the two exception classes handle_message names are
\* caught, the final "except Exception" is missing
CaughtOnlyNamed(exc) == exc \in {"ValidationError", "NotImplementedError"}

Caught(exc) == exc \in CaughtExceptions

\* what the synchronous part of one handle_message call did
Outcome(table, exc, creates, provider, verifier, req, envelope) ==
  [table |-> table, exc |-> exc, creates |-> creates, provider |-> provider,
   verifier |-> verifier, request |-> req, envelope |-> envelope]

\* WebsocketService.__init__: self.agents = {}
EmptyTable == <<>>

\* api/dependencies.get_websocket_service, resolved by FastAPI for each call of
\* websocket_endpoint: every connection gets a WebsocketService of its own
get_websocket_service(c) == EmptyTable

\* mutant of HandleInitialization: the "room_id not in self.agents" guard is
\* missing, every initialization creates and stores a new agent
HandleInitializationAlwaysCreates(table, text, out) ==
  IF ~InitializeMessageValid(text)
  THEN Outcome(table, "ValidationError", 0, FALSE, FALSE, NoRequest, NoEnvelope)
  ELSE
    LET made == create_agent(text.obj.game_type, OLLAMA)
    IN IF ~made.ok
       THEN Outcome(table, made.exc, 1, FALSE, FALSE, NoRequest, NoEnvelope)
       ELSE
         LET r == initialize_theme(made.agent, "Let's start the game!", out)
             table1 == (room_id :> r.agent)
         IN IF r.raised # "None"
            THEN Outcome(table1, r.raised, 1, TRUE, FALSE, r.request, NoEnvelope)
            ELSE Outcome(table1, "None", 1, TRUE, FALSE, r.request,
                         ResponseChatMessage("initialization", r.ret, "bot"))

\* case MessageType.INITIALIZATION, lines 58-95 (up to the broadcast call)
HandleInitialization(table, text, out) ==
  IF ~InitializeMessageValid(text)
  THEN Outcome(table, "ValidationError", 0, FALSE, FALSE, NoRequest, NoEnvelope)
  ELSE
    LET present == room_id \in DOMAIN table
        made == create_agent(text.obj.game_type, OLLAMA)
    IN IF ~present /\ ~made.ok
       THEN Outcome(table, made.exc, 1, FALSE, FALSE, NoRequest, NoEnvelope)
       ELSE
         LET a == IF present THEN table[room_id] ELSE made.agent
             r == initialize_theme(a, "Let's start the game!", out)
             table1 == (room_id :> r.agent)
             creates == IF present THEN 0 ELSE 1
         IN IF r.raised # "None"
            THEN Outcome(table1, r.raised, creates, TRUE, FALSE, r.request,
                         NoEnvelope)
            ELSE Outcome(table1, "None", creates, TRUE, FALSE, r.request,
                         ResponseChatMessage("initialization", r.ret, "bot"))

\* mutant of HandleChat: a missing agent is created on the spot instead of
\* being looked up
HandleChatGetOrCreate(table, text, out) ==
  IF ~ChatMessageValid(text)
  THEN Outcome(table, "ValidationError", 0, FALSE, FALSE, NoRequest, NoEnvelope)
  ELSE
    LET present == room_id \in DOMAIN table
        a == IF present THEN table[room_id]
             ELSE NewOllamaAgent(system_prompts["two_truth_a_lie"])
        r == get_response(a, text.obj.message, out)
        table1 == (room_id :> r.agent)
        creates == IF present THEN 0 ELSE 1
    IN IF r.raised # "None"
       THEN Outcome(table1, r.raised, creates, TRUE, FALSE, r.request, NoEnvelope)
       ELSE Outcome(table1, "None", creates, TRUE, FALSE, r.request,
                    ResponseChatMessage("chat", r.ret, "bot"))

\* case MessageType.CHAT, lines 96-108
HandleChat(table, text, out) ==
  IF ~ChatMessageValid(text)
  THEN Outcome(table, "ValidationError", 0, FALSE, FALSE, NoRequest, NoEnvelope)
  ELSE IF room_id \notin DOMAIN table
  THEN Outcome(table, "KeyError", 0, FALSE, FALSE, NoRequest, NoEnvelope)
  ELSE
    LET r == get_response(table[room_id], text.obj.message, out)
        table1 == (room_id :> r.agent)
    IN IF r.raised # "None"
       THEN Outcome(table1, r.raised, 0, TRUE, FALSE, r.request, NoEnvelope)
       ELSE Outcome(table1, "None", 0, TRUE, FALSE, r.request,
                    ResponseChatMessage("chat", r.ret, "bot"))

\* case MessageType.ANSWER, lines 109-138
HandleAnswer(table, text, vout) ==
  IF ~AnswerMessageValid(text)
  THEN Outcome(table, "ValidationError", 0, FALSE, FALSE, NoRequest, NoEnvelope)
  ELSE IF ~vout.completed
  THEN Outcome(table, "AttributeError", 0, FALSE, TRUE, NoRequest, NoEnvelope)
  ELSE Outcome(table, "None", 0, FALSE, TRUE, NoRequest,
               ResultMessage("result", VerifierResult(vout.stdout), "bot"))

\* handle_message up to its first await: validate, then match on the type
Dispatch(table, text, out, vout) ==
  IF ~BaseMessageValid(text)
  THEN Outcome(table, "ValidationError", 0, FALSE, FALSE, NoRequest, NoEnvelope)
  ELSE IF text.obj.message_type = "initialization"
  THEN HandleInitialization(table, text, out)
  ELSE IF text.obj.message_type = "chat"
  THEN HandleChat(table, text, out)
  ELSE IF text.obj.message_type = "answer"
  THEN HandleAnswer(table, text, vout)
  ELSE Outcome(table, "None", 0, FALSE, FALSE, NoRequest, NoEnvelope)

\* ------------------------------------------------------------ bounds
\* chat envelopes that reach an agent when one client plays a long game
MaxChats == 11
\* chat envelopes that reach an agent when two clients play a short game
ShortChats == 1
\* provider calls of get_response the environment lets fail
MaxChatFailures == 1

\* -------------------------------------------------- Connection (registry)
\* list.remove(x): drops the first occurrence, ValueError when x is absent
RECURSIVE RemoveFirst(_, _)
RemoveFirst(s, x) ==
  IF s = <<>> THEN <<>>
  ELSE IF Head(s) = x THEN Tail(s)
  ELSE <<Head(s)>> \o RemoveFirst(Tail(s), x)

InList(s, x) == \E i \in DOMAIN s : s[i] = x

\* Connection.disconnect
disconnect(list, websocket) ==
  IF InList(list, websocket)
  THEN [raised |-> "None", list |-> RemoveFirst(list, websocket)]
  ELSE [raised |-> "ValueError", list |-> list]

\* Connection.connect, after the accept
connect(list, websocket) == Append(list, websocket)

\* mutant of BroadcastNext: the loop walks a copy of the list taken when it
\* began
BroadcastNextSnapshot(list, idx, snap) ==
  IF idx < Len(snap)
  THEN [more |-> TRUE, target |-> snap[idx + 1], idx |-> idx + 1,
        raised |-> "None"]
  ELSE [more |-> FALSE, target |-> "None", idx |-> idx, raised |-> "None"]

\* one step of "for connection in self.active_connections": the list iterator
\* keeps an index into the live list; idx entries have been consumed
\* (snap is the list as it was when the loop began; the iterator ignores it)
BroadcastNext(list, idx, snap) ==
  IF idx < Len(list)
  THEN [more |-> TRUE, target |-> list[idx + 1], idx |-> idx + 1,
        raised |-> "None"]
  ELSE [more |-> FALSE, target |-> "None", idx |-> idx, raised |-> "None"]

\* mutant of SendArgument: the loop body sends an empty text
SendArgumentEmpty(message) == NoEnvelope

\* the text handed to connection.send_text in the loop body
SendArgument(message) == message

Idle ==
  [status |-> "idle", message |-> NoEnvelope, idx |-> 0, target |-> "None",
   snap |-> <<>>, attempts |-> <<>>, removed |-> {}, changed |-> FALSE,
   caller |-> "None", exc |-> "None", behind |-> {}]

Targets(f) == {f.attempts[i][1] : i \in DOMAIN f.attempts}

\* a registration change seen by a broadcast that is suspended in a send
Joined(f) == IF f.status = "running" THEN [f EXCEPT !.changed = TRUE] ELSE f
Left(f, c) ==
  IF f.status = "running"
  THEN [f EXCEPT !.changed = TRUE,
                 !.removed = IF c \in Targets(f) THEN @ ELSE @ \cup {c}]
  ELSE f

\* no call made on the registry yet
NoRegistryCall ==
  [op |-> "None", websocket |-> "None", raised |-> "None", before |-> <<>>]

\* send_text(target) begun by connection c's broadcast while another
\* broadcast is running that has already begun its own send to target: on
\* that socket c's text goes out second. A frame's behind holds the
\* connections at which it came second to the other caller's broadcast now
\* running (it is emptied when that broadcast ends).
SentAfter(c, target) ==
  IF \E x \in Conns \ {c} :
       frame[x].status = "running" /\ target \in Targets(frame[x])
  THEN {target} ELSE {}

\* the frames once connection c's broadcast has ended
Ended(c) ==
  [x \in Conns |-> IF x = c THEN Idle ELSE [frame[x] EXCEPT !.behind = {}]]

NothingHandled ==
  [conn |-> "None", text |-> NotJson, had_agent |-> FALSE, exc |-> "None",
   escaped |-> FALSE, creates |-> 0, provider |-> FALSE, verifier |-> FALSE,
   request |-> NoRequest, envelope |-> NoEnvelope, vout |-> VerifierFails]

\* the server after start-up: nothing registered, every service table empty.
\* The environment is either one client playing a long game, who also sends
\* malformed texts and whose verifier prints anything (noise), or every client
\* playing a short game of well-formed envelopes.
ServerIdle ==
  /\ active_connections = <<>>
  /\ agents = [c \in Conns |-> get_websocket_service(c)]
  /\ created = [c \in Conns |-> 0]
  /\ frame = [c \in Conns |-> Idle]
  /\ handled = NothingHandled
  /\ finished = Idle
  /\ registry_call = NoRegistryCall
  /\ \/ /\ pc = [c \in Conns |-> IF c = "ws1" THEN "new" ELSE "closed"]
        /\ quota = [chats |-> MaxChats, fails |-> MaxChatFailures, noise |-> TRUE]
     \/ /\ pc = [c \in Conns |-> "new"]
        /\ quota = [chats |-> ShortChats, fails |-> MaxChatFailures,
                    noise |-> FALSE]

\* mutant of LoopRunning: the provider and verifier calls are awaited, the
\* loop goes on running other coroutines while one of them is pending
LoopRunningAwaited == TRUE

\* the event loop's one thread is not inside a synchronous call. The provider
\* call (self.client(...)) and the verifier (subprocess.run) are plain calls
\* made from the coroutine, not awaited: until such a call returns the thread
\* runs nothing else, no other coroutine and no socket I/O
LoopRunning == \A c \in Conns : pc[c] # "blocked"

\* websocket_endpoint: connection.connect(websocket) returns
Connect(c) ==
  /\ LoopRunning
  /\ pc[c] = "new"
  /\ active_connections' = connect(active_connections, c)
  /\ pc' = [pc EXCEPT ![c] = "receive"]
  /\ frame' = [d \in Conns |-> Joined(frame[d])]
  /\ handled' = NothingHandled
  /\ finished' = Idle
  /\ UNCHANGED <<agents, created, quota>>
  /\ UNCHANGED agent_vars
  /\ UNCHANGED registry_call

\* websocket_endpoint: receive_text raises WebSocketDisconnect
Disconnect(c) ==
  /\ LoopRunning
  /\ pc[c] = "receive"
  /\ LET r == disconnect(active_connections, c)
     IN active_connections' = r.list
  /\ pc' = [pc EXCEPT ![c] = "closed"]
  /\ frame' = [d \in Conns |-> Left(frame[d], c)]
  /\ handled' = NothingHandled
  /\ finished' = Idle
  /\ UNCHANGED <<agents, created, quota>>
  /\ UNCHANGED agent_vars
  /\ UNCHANGED registry_call

\* websocket_endpoint: receive_text returns text and handle_message runs up to
\* its first await (the first send of the broadcast) or to its end
Handle(c, text, out, vout) ==
  /\ LoopRunning
  /\ pc[c] = "receive"
  /\ LET d == Dispatch(agents[c], text, out, vout)
         chat == d.provider /\ text.obj.message_type = "chat"
         escaped == d.exc # "None" /\ ~Caught(d.exc)
         first == BroadcastNext(active_connections, 0, active_connections)
         f0 == [status |-> "running", message |-> d.envelope, idx |-> first.idx,
                target |-> first.target, snap |-> active_connections,
                attempts |-> <<>>, removed |-> {}, changed |-> FALSE,
                caller |-> c, exc |-> "None", behind |-> {}]
     IN /\ chat => quota.chats > 0
        /\ (chat /\ d.exc # "None") => quota.fails > 0
        /\ quota' = [quota EXCEPT
                       !.chats = IF chat THEN @ - 1 ELSE @,
                       !.fails = IF chat /\ d.exc # "None" THEN @ - 1 ELSE @]
        /\ agents' = [agents EXCEPT ![c] = d.table]
        /\ created' = [created EXCEPT ![c] = @ + d.creates]
        /\ handled' = [conn |-> c, text |-> text,
                       had_agent |-> room_id \in DOMAIN agents[c],
                       exc |-> d.exc, escaped |-> escaped, creates |-> d.creates,
                       provider |-> d.provider, verifier |-> d.verifier,
                       request |-> d.request, envelope |-> d.envelope,
                       vout |-> IF d.verifier THEN vout ELSE VerifierFails]
        /\ IF d.envelope = NoEnvelope
           THEN /\ pc' = [pc EXCEPT ![c] = IF escaped THEN "crashed" ELSE "receive"]
                /\ finished' = Idle
                /\ UNCHANGED frame
           ELSE IF first.raised # "None"
           THEN /\ pc' = pc
                /\ finished' = [f0 EXCEPT !.status = "raised",
                                          !.exc = first.raised]
                /\ UNCHANGED frame
           ELSE IF first.more
           THEN /\ pc' = [pc EXCEPT ![c] = "sending"]
                /\ frame' = [frame EXCEPT ![c] =
                     [f0 EXCEPT !.attempts =
                        << <<first.target, SendArgument(d.envelope)>> >>,
                                !.behind = SentAfter(c, first.target)]]
                /\ finished' = Idle
           ELSE /\ pc' = pc
                /\ finished' = [f0 EXCEPT !.status = "done"]
                /\ UNCHANGED frame
  /\ UNCHANGED active_connections
  /\ UNCHANGED agent_vars
  /\ UNCHANGED registry_call

\* the client sends an initialization envelope
ReceiveInitialization(c, out) ==
  /\ out \in ThemeOutcomes
  /\ Handle(c, InitText, out, [completed |-> FALSE, stdout |-> <<>>])

\* the client sends a chat envelope
ReceiveChat(c, out) ==
  /\ out \in ReplyOutcomes
  /\ Handle(c, ChatText, out, [completed |-> FALSE, stdout |-> <<>>])

\* the client sends an answer envelope; vout is what the verifier process does
ReceiveAnswer(c, vout) ==
  /\ quota.noise \/ vout \in PlainVerifierOutcomes
  /\ Handle(c, AnswerText, ProviderFails, vout)

\* the client sends a result envelope or a text that fails validation
ReceiveOther(c, text) ==
  /\ quota.noise
  /\ Handle(c, text, ProviderFails, [completed |-> FALSE, stdout |-> <<>>])

\* the pending send_text returns: the loop takes its next connection or ends
SendReturns(c) ==
  /\ LoopRunning
  /\ pc[c] = "sending"
  /\ LET f == frame[c]
         nxt == BroadcastNext(active_connections, f.idx, f.snap)
     IN IF nxt.raised # "None"
        THEN /\ frame' = Ended(c)
             /\ finished' = [f EXCEPT !.status = "raised", !.exc = nxt.raised,
                                       !.behind = {}]
             /\ pc' = [pc EXCEPT ![c] = "receive"]
        ELSE IF nxt.more
        THEN /\ frame' = [frame EXCEPT ![c] =
                  [f EXCEPT !.idx = nxt.idx, !.target = nxt.target,
                            !.attempts = Append(@, <<nxt.target,
                                                     SendArgument(f.message)>>),
                            !.behind = @ \cup SentAfter(c, nxt.target)]]
             /\ finished' = Idle
             /\ UNCHANGED pc
        ELSE /\ frame' = Ended(c)
             /\ finished' = [f EXCEPT !.status = "done", !.behind = {}]
             /\ pc' = [pc EXCEPT ![c] = "receive"]
  /\ handled' = NothingHandled
  /\ UNCHANGED <<active_connections, agents, created, quota>>
  /\ UNCHANGED agent_vars
  /\ UNCHANGED registry_call

\* mutant of SendRaises: the connection whose send raised is dropped from the
\* registry by the broadcast
SendRaisesAndUnregisters(c) ==
  /\ LoopRunning
  /\ pc[c] = "sending"
  /\ frame' = Ended(c)
  /\ finished' = [frame[c] EXCEPT !.status = "raised", !.exc = "SendError",
                                   !.behind = {}]
  /\ pc' = [pc EXCEPT ![c] = IF Caught("SendError") THEN "receive" ELSE "crashed"]
  /\ handled' = NothingHandled
  /\ active_connections' = RemoveFirst(active_connections, frame[c].target)
  /\ UNCHANGED <<agents, created, quota>>
  /\ UNCHANGED agent_vars
  /\ UNCHANGED registry_call

\* the pending send_text raises: the loop is abandoned and the exception is
\* caught and logged by handle_message
SendRaises(c) ==
  /\ LoopRunning
  /\ pc[c] = "sending"
  /\ frame' = Ended(c)
  /\ finished' = [frame[c] EXCEPT !.status = "raised", !.exc = "SendError",
                                   !.behind = {}]
  /\ pc' = [pc EXCEPT ![c] = IF Caught("SendError") THEN "receive" ELSE "crashed"]
  /\ handled' = NothingHandled
  /\ UNCHANGED <<active_connections, agents, created, quota>>
  /\ UNCHANGED agent_vars
  /\ UNCHANGED registry_call

\* handle_message reaches its provider or verifier call and the call does not
\* return yet. Everything the handler did before the call is done: the agent
\* created and stored, the directive set, the user turn appended. handled
\* keeps, under no connection's name, what the call does when it gives up.
CallBlocks(c, text) ==
  /\ LoopRunning
  /\ pc[c] = "receive"
  /\ LET d == Dispatch(agents[c], text, ProviderFails, VerifierFails)
         chat == d.provider /\ text.obj.message_type = "chat"
     IN /\ d.provider \/ d.verifier
        /\ chat => quota.chats > 0 /\ quota.fails > 0
        /\ quota' = [quota EXCEPT !.chats = IF chat THEN @ - 1 ELSE @,
                                  !.fails = IF chat THEN @ - 1 ELSE @]
        /\ agents' = [agents EXCEPT ![c] = d.table]
        /\ created' = [created EXCEPT ![c] = @ + d.creates]
        /\ handled' = [conn |-> "None", text |-> text,
                       had_agent |-> room_id \in DOMAIN agents[c],
                       exc |-> d.exc, escaped |-> FALSE, creates |-> d.creates,
                       provider |-> d.provider, verifier |-> d.verifier,
                       request |-> d.request, envelope |-> d.envelope,
                       vout |-> VerifierFails]
  /\ pc' = [pc EXCEPT ![c] = "blocked"]
  /\ finished' = Idle
  /\ UNCHANGED <<active_connections, frame>>
  /\ UNCHANGED agent_vars
  /\ UNCHANGED registry_call

\* the pending call gives up (the provider's client raises, subprocess.run
\* times out after 60 s): handle_message catches the exception and returns
CallGivesUp(c) ==
  /\ pc[c] = "blocked"
  /\ handled' = [handled EXCEPT !.conn = c,
                                !.escaped = ~Caught(handled.exc)]
  /\ pc' = [pc EXCEPT ![c] = IF Caught(handled.exc) THEN "receive" ELSE "crashed"]
  /\ finished' = Idle
  /\ UNCHANGED <<active_connections, agents, created, frame, quota>>
  /\ UNCHANGED agent_vars
  /\ UNCHANGED registry_call

Next ==
  \/ \E c \in Conns : Connect(c)
  \/ \E c \in Conns : Disconnect(c)
  \/ \E c \in Conns, out \in ThemeOutcomes : ReceiveInitialization(c, out)
  \/ \E c \in Conns, out \in ReplyOutcomes : ReceiveChat(c, out)
  \/ \E c \in Conns, vout \in VerifierOutcomes : ReceiveAnswer(c, vout)
  \/ \E c \in Conns, text \in InvalidTexts \cup {ResultText} : ReceiveOther(c, text)
  \/ \E c \in Conns : SendReturns(c)
  \/ \E c \in Conns : SendRaises(c)
  \/ \E c \in Conns, text \in {InitText, ChatText, AnswerText} : CallBlocks(c, text)
  \/ \E c \in Conns : CallGivesUp(c)

Init == AgentIdle /\ ServerIdle
Spec == Init /\ [][Next]_vars

\* the agent alone: the server stays as started
InitAgent == AgentIdle /\ ServerIdle /\ quota.noise
SpecAgent == InitAgent /\ [][AgentNext]_vars

\* ============================================================ SpecConnection
\* entries the registry list may hold when its methods are called directly
MaxRegistered == 5

\* a caller awaits connection.connect(websocket): accept, then append
CallConnect(c) ==
  /\ Len(active_connections) < MaxRegistered
  /\ active_connections' = connect(active_connections, c)
  /\ registry_call' = [op |-> "connect", websocket |-> c, raised |-> "None",
                       before |-> active_connections]
  /\ UNCHANGED <<pc, agents, created, frame, handled, quota, finished>>
  /\ UNCHANGED agent_vars

\* a caller calls connection.disconnect(websocket), registered or not
CallDisconnect(c) ==
  /\ LET r == disconnect(active_connections, c)
     IN /\ active_connections' = r.list
        /\ registry_call' = [op |-> "disconnect", websocket |-> c,
                             raised |-> r.raised, before |-> active_connections]
  /\ UNCHANGED <<pc, agents, created, frame, handled, quota, finished>>
  /\ UNCHANGED agent_vars

ConnectionNext ==
  \/ \E c \in Conns : CallConnect(c)
  \/ \E c \in Conns : CallDisconnect(c)

SpecConnection == InitAgent /\ [][ConnectionNext]_vars

\* ==================================================================== claims
\* a provider request read back as its (role, text) entries: the message
\* list of OpenAI as it is, the prompt text of Ollama by its prefixes (the
\* dangling "[assistant]\n" that ends a chat prompt is a cue, not an entry)
RoleOfPrefix(p) ==
  IF p = SYSTEM_PREFIX THEN ROLE_SYSTEM
  ELSE IF p = USER_PREFIX THEN ROLE_USER
  ELSE IF p = ASSISTANT_PREFIX THEN ROLE_ASSISTANT
  ELSE "unknown"

Entries(kind, body) ==
  IF kind = "messages"
  THEN [i \in DOMAIN body |-> <<body[i].role, body[i].content>>]
  ELSE [i \in 1..(Len(body) \div 3) |->
          <<RoleOfPrefix(body[3 * i - 2]), body[3 * i - 1]>>]

\* a history read as (role, text) pairs, whichever class stored it
Pairs(cls, h) ==
  IF cls = "OpenAIAgent"
  THEN [i \in DOMAIN h |-> <<h[i].role, h[i].content>>]
  ELSE h

HasAgent(c) == room_id \in DOMAIN agents[c]
AgentOf(c) == agents[c][room_id]

\* C1 (as claimed): whichever class the agent has, after every operation its
\* history holds at most 10 entries, and they are the 10 most recent turns
\* appended, in order (the oldest is the one evicted).
C1_BoundedHistory ==
  agent.cls # "None" =>
    /\ Len(agent.histories) <= HistoryMax
    /\ agent.histories = LastN(turns, HistoryMax)

\* C2: in every service the stored agent's history never exceeds 10 entries,
\* and once an initialization has succeeded every chat request handed to the
\* provider carries the opening text initialize_theme returned.
C2_HistoryBoundedThemeSent ==
  /\ \A c \in Conns : HasAgent(c) => Len(AgentOf(c).histories) <= HistoryMax
  /\ \A c \in Conns :
       ( /\ handled.conn = c
         /\ handled.text = ChatText
         /\ handled.provider
         /\ AgentOf(c).theme # "" )
       => \E i \in DOMAIN Entries(handled.request.kind, handled.request.body) :
            Entries(handled.request.kind, handled.request.body)[i]
              = <<ROLE_ASSISTANT, AgentOf(c).theme>>

\* C2 witness: the 11th chat of a long game, none of them failed, answered
\* from a full history after a successful initialization.
C2_EleventhChat ==
  /\ quota.noise
  /\ quota.chats + 11 = MaxChats
  /\ quota.fails = MaxChatFailures
  /\ handled.conn = "ws1"
  /\ handled.text = ChatText
  /\ handled.exc = "None"
  /\ AgentOf("ws1").theme \in Themes
  /\ Len(AgentOf("ws1").histories) = HistoryMax

\* C3 (as claimed): every request get_response hands to the provider starts
\* with the system prompt, then carries the opening text (when one is set),
\* and ends with the history the agent held at the call, in that order.
C3_RequestOrder ==
  request.op = "get_response" =>
    LET e == Entries(request.kind, request.body)
        h == Pairs(agent.cls, request.history)
        n == Len(e)
        k == Len(h)
    IN /\ n >= 1 + k
       /\ e[1] = <<ROLE_SYSTEM, agent.system_prompt>>
       /\ agent.theme # "" =>
            \E i \in 2..(n - k) : e[i] = <<ROLE_ASSISTANT, agent.theme>>
       /\ SubSeq(e, n - k + 1, n) = h

\* C4: a service calls create_agent at most once: it holds an agent for the
\* room exactly when it has made its one call, and an initialization handled
\* while the agent exists creates nothing.
C4_CreatedOnce ==
  /\ \A c \in Conns : created[c] <= 1 /\ (HasAgent(c) <=> created[c] = 1)
  /\ (handled.conn # "None" /\ handled.had_agent) => handled.creates = 0

\* C4 witness: a second initialization envelope handled by a service that
\* already holds its agent.
C4_SecondInitialization ==
  /\ handled.conn # "None"
  /\ handled.text = InitText
  /\ handled.had_agent
  /\ handled.exc = "None"

\* a successful initialization has left connection c's service an agent
Initialized(c) == HasAgent(c) /\ AgentOf(c).theme \in Themes

\* C5 (as claimed): the session table is shared: at most one agent exists for
\* the room over all connections, and a chat envelope handled after some
\* connection's initialization succeeded reaches that agent.
C5_SharedSessionTable ==
  /\ Cardinality({c \in Conns : Initialized(c)}) <= 1
  /\ (handled.conn # "None" /\ handled.text = ChatText
        /\ \E c \in Conns : Initialized(c))
     => handled.provider

\* C6 (as claimed): a broadcast during which no connection registered or
\* unregistered made one delivery attempt per connection registered at the
\* call, in registration order, each with the broadcast text.
C6_FanOut ==
  (finished.status \in {"done", "raised"} /\ ~finished.changed) =>
    finished.attempts =
      [i \in DOMAIN finished.snap |-> <<finished.snap[i], finished.message>>]

Attempts(f, x) == Cardinality({i \in DOMAIN f.attempts : f.attempts[i][1] = x})

\* C7 (as claimed): when a broadcast returns, every connection that was
\* registered at the call and still is has had exactly one delivery attempt,
\* whatever registered or unregistered meanwhile.
C7_Snapshot ==
  finished.status = "done" =>
    \A i \in DOMAIN finished.snap :
      InList(active_connections, finished.snap[i])
        => Attempts(finished, finished.snap[i]) = 1

\* C8: a connection unregistered during a broadcast before its own delivery
\* attempt gets no attempt from that broadcast, and the loop itself never
\* raises: a broadcast ends by an exception only when a send raised.
C8_RemovedNotAttempted ==
  /\ \A c \in Conns : frame[c].removed \cap Targets(frame[c]) = {}
  /\ finished.removed \cap Targets(finished) = {}
  /\ finished.status = "raised" => finished.exc = "SendError"

\* C8 witness: a broadcast returned after a connection it had not yet reached
\* was unregistered.
C8_RemovedDuringBroadcast ==
  /\ finished.status = "done"
  /\ finished.removed # {}

C10_AnswerWithoutAgent ==
  (handled.conn # "None" /\ handled.text = AnswerText /\ ~handled.had_agent) =>
    /\ ~handled.verifier
    /\ handled.envelope = NoEnvelope

\* the texts handle_message has no effect for: those that fail validation and
\* the result kind, which has no case of its own
DroppedTexts == InvalidTexts \cup {ResultText}

BroadcastOf(c) == IF frame[c].status = "running" THEN frame[c] ELSE finished

\* the text the agent returned to the call just handled: the opening text
\* for an initialization, the assistant turn just appended for a chat
Returned(c, kind) ==
  IF kind = "initialization" THEN AgentOf(c).theme
  ELSE AgentOf(c).histories[Len(AgentOf(c).histories)][2]

\* C12: an initialization or chat envelope handled without an exception
\* builds one envelope of the same kind, with sender "bot" and the text the
\* agent returned, and starts one broadcast of it over the connections
\* registered, the sender among them; a broadcast of such an envelope that
\* returned with no registration change has sent that same envelope exactly
\* once to each of the N >= 1 registered connections.
C12_OneIdenticalEnvelope ==
  /\ ( /\ handled.conn # "None"
       /\ handled.text \in {InitText, ChatText}
       /\ handled.exc = "None" )
     => LET c == handled.conn
            kind == handled.text.obj.message_type
        IN /\ handled.envelope =
                << <<"message_type", kind>>, <<"message", Returned(c, kind)>>,
                   <<"sender", "bot">> >>
           /\ BroadcastOf(c).status \in {"running", "done"}
           /\ BroadcastOf(c).caller = c
           /\ BroadcastOf(c).message = handled.envelope
           /\ BroadcastOf(c).snap = active_connections
           /\ InList(active_connections, c)
  /\ ( /\ finished.status = "done"
       /\ ~finished.changed
       /\ finished.message[1][2] \in {"initialization", "chat"} )
     => /\ Len(finished.snap) >= 1
        /\ InList(finished.snap, finished.caller)
        /\ Len(finished.attempts) = Len(finished.snap)
        /\ \A i \in DOMAIN finished.snap :
             Cardinality({k \in DOMAIN finished.attempts :
                            finished.attempts[k]
                              = <<finished.snap[i], finished.message>>}) = 1

\* C12 witness: a chat reply broadcast to two registered connections, none
\* registering or unregistering meanwhile, has returned.
C12_ChatBroadcastToTwo ==
  /\ finished.status = "done"
  /\ ~finished.changed
  /\ Len(finished.snap) = 2
  /\ finished.message[1][2] = "chat"
  /\ finished.message[3][2] = "bot"

C14_ProviderFailureKeepsSession ==
  /\ ( /\ handled.conn # "None"
       /\ handled.text = ChatText
       /\ handled.provider
       /\ handled.exc # "None" )
     => LET c == handled.conn
            h == AgentOf(c).histories
        IN /\ HasAgent(c)
           /\ h # <<>>
           /\ h[Len(h)] = <<ROLE_USER, handled.text.obj.message>>
           /\ handled.envelope = NoEnvelope
           /\ frame[c].status = "idle"
           /\ finished.status = "idle"
           /\ pc[c] = "receive"
  /\ ( /\ handled.conn # "None"
       /\ handled.text = ChatText
       /\ handled.had_agent )
     => /\ handled.provider
        /\ handled.exc = "None" =>
             /\ handled.envelope =
                  ResponseChatMessage("chat", Returned(handled.conn, "chat"), "bot")
             /\ BroadcastOf(handled.conn).status \in {"running", "done"}
             /\ BroadcastOf(handled.conn).message = handled.envelope

\* C14 witness: a chat answered after an earlier chat turn's provider call
\* failed: the history holds the failed turn's user entry directly followed
\* by the next user entry.
C14_ChatAfterFailedTurn ==
  /\ quota.noise
  /\ quota.fails < MaxChatFailures
  /\ handled.conn = "ws1"
  /\ handled.text = ChatText
  /\ handled.exc = "None"
  /\ LET h == AgentOf("ws1").histories
     IN \E i \in 1..(Len(h) - 1) : h[i][1] = ROLE_USER /\ h[i + 1][1] = ROLE_USER

\* C15 (as claimed): a first initialization whose provider call fails leaves
\* no agent stored for the room, and a chat envelope handled after only
\* failed initializations does not reach the provider.
C15_FailedInitializationStoresNothing ==
  /\ ( /\ handled.conn # "None"
       /\ handled.text = InitText
       /\ ~handled.had_agent
       /\ handled.exc # "None" )
     => ~HasAgent(handled.conn)
  /\ ( /\ handled.conn # "None"
       /\ handled.text = ChatText
       /\ ~Initialized(handled.conn) )
     => /\ ~handled.provider
        /\ handled.envelope = NoEnvelope

\* C16 (as claimed): once a successful initialization has set the opening
\* text of a service's agent, no step changes it.
C16_OpeningContextFixed ==
  [][ \A c \in Conns :
        Initialized(c) => /\ room_id \in DOMAIN agents'[c]
                          /\ agents'[c][room_id].theme = AgentOf(c).theme ]_vars

\* C17 (as claimed): disconnect of a connection the list does not hold, a
\* second disconnect of the same connection for one, does not raise and
\* leaves the list as it was.
C17_DisconnectAbsentNoOp ==
  ( /\ registry_call.op = "disconnect"
    /\ ~InList(registry_call.before, registry_call.websocket) )
  => /\ registry_call.raised = "None"
     /\ active_connections = registry_call.before

\* C18 (as claimed): while one connection's provider or verifier call is
\* pending, every other connection still makes progress: one that waits in
\* receive_text can have a message received and handled, one whose broadcast
\* waits in a send can have the send return.
C18_HangIsolated ==
  \A c \in Conns : \A d \in Conns \ {c} :
    pc[c] = "blocked" =>
      /\ pc[d] = "receive" =>
           ENABLED (\E out \in ThemeOutcomes : ReceiveInitialization(d, out))
      /\ pc[d] = "sending" => ENABLED SendReturns(d)

\* an answer envelope was just handled and its verifier process completed
AnswerVerified ==
  /\ handled.conn # "None"
  /\ handled.text = AnswerText
  /\ handled.verifier
  /\ handled.vout.completed

\* the well-formed result envelope handled carries, sent by one broadcast
ResultEnvelopeSent ==
  /\ Len(handled.envelope) = 3
  /\ handled.envelope[1] = <<"message_type", "result">>
  /\ handled.envelope[2][1] = "result"
  /\ handled.envelope[2][2] \in {"success", "failed"}
  /\ handled.envelope[3] = <<"sender", "bot">>
  /\ BroadcastOf(handled.conn).status \in {"running", "done"}
  /\ BroadcastOf(handled.conn).message = handled.envelope

C20_VerifierFailureFallback ==
  ( /\ handled.conn # "None"
    /\ handled.text = AnswerText
    /\ handled.verifier
    /\ ~handled.vout.completed )
  => /\ handled.envelope = ResultMessage("result", "failed", "bot")
     /\ BroadcastOf(handled.conn).status \in {"running", "done"}

\* connection c's handler is inside get_response: the user turn is appended,
\* the provider call has not returned, the assistant turn is not appended
InGetResponse(c) ==
  /\ pc[c] = "blocked"
  /\ handled.text = ChatText
  /\ handled.provider

\* C21: while a handler is inside get_response, between the append of the
\* user turn and the return of the provider call, no other handler takes a
\* step at all: no text is received or handled, no agent table is read or
\* written, and the only step possible is the end of that call; and a chat
\* turn that completed left its user entry and its assistant entry next to
\* each other at the end of the history.
C21_TurnNotInterleaved ==
  /\ [][ \A c \in Conns :
           InGetResponse(c) =>
             /\ agents' = agents
             /\ created' = created
             /\ handled'.conn = c
             /\ \A d \in Conns \ {c} : pc'[d] = pc[d] /\ frame'[d] = frame[d]
             /\ LET h == AgentOf(c).histories
                IN h[Len(h)] = <<ROLE_USER, handled.text.obj.message>> ]_vars
  /\ [][ ( /\ handled'.conn # "None"
           /\ handled'.text = ChatText
           /\ handled'.exc = "None" )
         => LET c == handled'.conn
                h == agents'[c][room_id].histories
            IN /\ Len(h) >= 2
               /\ h[Len(h) - 1] = <<ROLE_USER, handled'.text.obj.message>>
               /\ h[Len(h)][1] = ROLE_ASSISTANT ]_vars

\* C21 witness: one connection's chat is inside its provider call, after an
\* initialization, while the other connection, initialized too, waits for
\* its next text.
C21_PendingTurnOtherWaiting ==
  /\ InGetResponse("ws1")
  /\ Initialized("ws1")
  /\ pc["ws2"] = "receive"
  /\ Initialized("ws2")

\* C22: the list changes only in two ways: the connect of an endpoint that
\* was not registered appends it, the disconnect of an endpoint whose
\* receive_text raised removes it. A step in which handle_message ran, a send
\* returned or raised, or a broadcast ended leaves the list as it was.
C22_OnlyConnectAndDisconnect ==
  [][ /\ active_connections' # active_connections =>
           \E c \in Conns :
             \/ /\ pc[c] = "new" /\ pc'[c] = "receive"
                /\ active_connections' = Append(active_connections, c)
             \/ /\ pc[c] = "receive" /\ pc'[c] = "closed"
                /\ active_connections' = RemoveFirst(active_connections, c)
      /\ ( \/ handled'.conn # "None"
           \/ finished'.status # "idle"
           \/ \E c \in Conns : Len(frame'[c].attempts) > Len(frame[c].attempts)
           \/ \E c \in Conns : pc[c] = "blocked" )
         => active_connections' = active_connections ]_vars

\* C22 witness: a send raised, the broadcast was abandoned, and the
\* connection it could not deliver to is still registered.
C22_FailedTargetStillRegistered ==
  /\ finished.status = "raised"
  /\ finished.exc = "SendError"
  /\ InList(active_connections, finished.target)
  /\ finished.target # finished.caller

\* C23 (as claimed): a broadcast in which a send raised, with no connection
\* registering or unregistering meanwhile, has still made its delivery
\* attempt to every other connection of the list.
C23_RaisingSendSkipsNobody ==
  ( /\ finished.status = "raised"
    /\ finished.exc = "SendError"
    /\ ~finished.changed )
  => \A x \in Conns :
       (InList(active_connections, x) /\ x # finished.target)
         => Attempts(finished, x) >= 1

\* C24 (as claimed): when two broadcasts overlap, no two connections get
\* their two texts in opposite orders: it never happens that each of the two
\* broadcasts came second to the other at some connection.
C24_SameRelativeOrder ==
  \A c \in Conns : \A d \in Conns \ {c} :
    (frame[c].status = "running" /\ frame[d].status = "running")
      => ~(frame[c].behind # {} /\ frame[d].behind # {})

====
